---- MODULE Spec2Model ----
(***************************************************************************)
(* Model of portal_frame.py: the placement arithmetic and the sequence of  *)
(* fuse operations of create_custom_structure, and the __main__ script     *)
(* that reads the two inputs, calls it once and displays the result.       *)
(*                                                                         *)
(* Lengths are fixed-point integers in hundredths of a millimetre; the     *)
(* trigonometric functions are tables in hundredths.  A solid is the       *)
(* record of its kind, its side, its loop index and the translation it was *)
(* placed with; the accumulator `structure` is the sequence of the solids  *)
(* fused into it, in fuse order.                                           *)
(***************************************************************************)
EXTENDS Integers, Sequences, FiniteSets, TLC

VARIABLES pc, caller, rafter_angle_in, desired_number_of_prisms, args, i,
          columns, structure, num_prisms, prism_spacing, result, error,
          displayed, history

vars == <<pc, caller, rafter_angle_in, desired_number_of_prisms, args, i,
          columns, structure, num_prisms, prism_spacing, result, error,
          displayed, history>>

\* ---------------------------------------------------------------- bounds
\* Largest purlin count the inputs are drawn from.
MaxPrisms == 3
\* Largest number of calls a library caller makes in one session.
MaxCalls == 2

\* ------------------------------------------------------------- constants
\* Millimetres to model units (hundredths of a millimetre).
Mm(v) == v * 100

num_columns == 5
BoxSize == 1000
ColumnHeightMm == 4000
ColumnThicknessMm == 250
RafterLengthMm == 9000
RoofWidthMm == 200
RoofHeightMm == 200
FlangeThicknessMm == 20

\* A name that is not bound (or a value that does not exist yet) is the
\* empty sequence, a bound one the one-element sequence of its value.
Unbound == <<>>
Bound(v) == <<v>>
ValueOf(o) == o[1]
NoError == "none"

\* Angles (degrees) the angle input is drawn from, and purlin counts.
Angles == {20, 45, 90}
Counts == (-1) .. MaxPrisms
\* Values a caller may pass as the prism_spacing argument (hundredths of mm).
SpacingArgs == {0, Mm(RoofWidthMm)}

\* -------------------------------------------------------- pure functions
\* math.cos(math.radians(a)) in hundredths.  cos of 90 degrees evaluates to
\* 6.1e-17 in double precision, which is 0 at this resolution.
CosC(a) == CASE a = 0 -> 100 [] a = 20 -> 94 [] a = 45 -> 71
             [] a = 60 -> 50 [] a = 90 -> 0

\* math.tan(math.radians(a)) in hundredths.  tan of 90 degrees evaluates to
\* the finite double 1.633e16 (math.tan never raises); the table holds a
\* large finite stand-in that keeps the products in range.
TanC(a) == CASE a = 0 -> 0 [] a = 20 -> 36 [] a = 45 -> 100
             [] a = 60 -> 173 [] a = 90 -> 10000

Abs(v) == IF v < 0 THEN -v ELSE v

\* Python's true division of two numbers with b # 0, truncated to the
\* resolution of the model.
FloatDiv(a, b) == IF b < 0 THEN -(a \div (-b)) ELSE a \div b

\* column_spacing_x = 2 * rafter_length * math.cos(angle_rad)
ColumnSpacingX(a) == (2 * a.rafter_length * CosC(a.rafter_angle)) \div 100

\* column_spacing_y = rafter_length
ColumnSpacingY(a) == a.rafter_length

Solid(kind, side, idx, x, y, z) ==
    [kind |-> kind, side |-> side, idx |-> idx, x |-> x, y |-> y, z |-> z]

\* gp_Vec(0, i * column_spacing_y, 0)
LeftColumn(a, k) == Solid("column", "left", k, 0, k * ColumnSpacingY(a), 0)

\* Mutation: the right column row is not offset by the column thickness.
RightColumnX_NoThickness(a) == ColumnSpacingX(a)

\* gp_Vec(column_spacing_x+column_thickness, i * column_spacing_y, 0)
RightColumnX(a) == ColumnSpacingX(a) + a.column_thickness

RightColumn(a, k) ==
    Solid("column", "right", k, RightColumnX(a), k * ColumnSpacingY(a), 0)

\* structure = columns[0]; for col in columns[1:]: structure = Fuse(structure, col)
RECURSIVE FuseAll(_, _)
FuseAll(acc, rest) ==
    IF rest = <<>> THEN acc
    ELSE FuseAll(Append(acc, Head(rest)), Tail(rest))

FuseColumns(cols) == FuseAll(<<Head(cols)>>, Tail(cols))

\* Mutation: the foundation block is not shifted back in depth.
FoundationY_NoShift(a, k) == k * ColumnSpacingY(a)

\* i * column_spacing_y - column_thickness*1.5
FoundationY(a, k) ==
    k * ColumnSpacingY(a) - (a.column_thickness * 15) \div 10

\* column_base_left = gp_Vec(-column_thickness*2, ..., 0)
FoundationLeft(a, k) ==
    Solid("foundation", "left", k, -(a.column_thickness * 2),
          FoundationY(a, k), 0)

\* column_base_right = gp_Vec(column_spacing_x-column_thickness*2, ..., 0)
FoundationRight(a, k) ==
    Solid("foundation", "right", k,
          ColumnSpacingX(a) - a.column_thickness * 2, FoundationY(a, k), 0)

\* rafter translations gp_Vec(0, i*column_spacing_y, column_height) and
\* gp_Vec(column_spacing_x, i*column_spacing_y, column_height)
RafterLeft(a, k) ==
    Solid("rafter", "left", k, 0, k * ColumnSpacingY(a), a.column_height)

RafterRight(a, k) ==
    Solid("rafter", "right", k, ColumnSpacingX(a), k * ColumnSpacingY(a),
          a.column_height)

\* Mutation: the prism_spacing argument is kept instead of being recomputed.
RecomputedSpacing_KeepArgument(a, n) == a.prism_spacing

\* prism_spacing = rafter_length * math.cos(angle_rad) / (num_prisms - 1);
\* the value of the prism_spacing argument is not read.
RecomputedSpacing(a, n) ==
    FloatDiv((a.rafter_length * CosC(a.rafter_angle)) \div 100, n - 1)

\* x_position_left: the last index is moved by roof_width/2
XPositionLeft(a, n, sp, k) ==
    IF k = n - 1 THEN k * sp + a.roof_width \div 2 ELSE k * sp

\* z_position_left
ZPositionLeft(a, n, sp, k) ==
    IF k = n - 1
    THEN a.column_height + a.roof_height
         + (TanC(a.rafter_angle) * XPositionLeft(a, n, sp, k)) \div 100
         - a.column_thickness \div 2
    ELSE a.column_height + a.roof_height
         + (TanC(a.rafter_angle) * XPositionLeft(a, n, sp, k)) \div 100
         + (a.flange_thickness * 35) \div 10

RoofLeft(a, n, sp, k) ==
    Solid("purlin", "left", k, XPositionLeft(a, n, sp, k), 0,
          ZPositionLeft(a, n, sp, k))

\* x_position_right = column_spacing_x - i * prism_spacing
XPositionRight(a, sp, k) == ColumnSpacingX(a) - k * sp

\* z_position_right, with x_position = -i * prism_spacing
ZPositionRight(a, sp, k) ==
    a.column_height + (TanC(a.rafter_angle) * Abs(-(k * sp))) \div 100
    + (a.column_thickness * 145) \div 100

RoofRight(a, sp, k) ==
    Solid("purlin", "right", k, XPositionRight(a, sp, k), 0,
          ZPositionRight(a, sp, k))

\* range(num_prisms) and range(num_prisms-1): the number of iterations
LeftCount(n) == IF n > 0 THEN n ELSE 0

\* Mutation: the right rafter loop runs as often as the left one.
RightCount_AsLeft(n) == IF n > 0 THEN n ELSE 0

RightCount(n) == IF n - 1 > 0 THEN n - 1 ELSE 0

\* The dimensions the __main__ script defines, as the argument record.
ReferenceArgs(angle, spacing) ==
    [column_height    |-> Mm(ColumnHeightMm),
     column_thickness |-> Mm(ColumnThicknessMm),
     rafter_length    |-> Mm(RafterLengthMm),
     rafter_angle     |-> angle,
     roof_length      |-> Mm(RafterLengthMm) * 4 + Mm(200),
     roof_width       |-> Mm(RoofWidthMm),
     roof_height      |-> Mm(RoofHeightMm),
     flange_thickness |-> Mm(FlangeThicknessMm),
     prism_spacing    |-> spacing]

\* prism_spacing = rafter_length / (desired_number_of_prisms - 1) in __main__
MainSpacing(n) == FloatDiv(Mm(RafterLengthMm), n - 1)

\* ------------------------------------------------------------------ state
\* No call has been made: the locals hold placeholders that are never read.
NoCall ==
    /\ args = Unbound
    /\ i = 0
    /\ columns = <<>>
    /\ structure = <<>>
    /\ num_prisms = 0
    /\ prism_spacing = 0
    /\ result = Unbound
    /\ error = NoError

\* The script: nothing is bound before the first input is read.
Init ==
    /\ pc = "input_angle"
    /\ caller = "main"
    /\ rafter_angle_in = Unbound
    /\ desired_number_of_prisms = Unbound
    /\ displayed = Unbound
    /\ history = <<>>
    /\ NoCall

\* The module imported by another program: the __main__ block does not
\* run, so the module global is not bound until the importer binds it.
InitLib ==
    /\ pc = "idle"
    /\ caller = "lib"
    /\ rafter_angle_in = Unbound
    /\ desired_number_of_prisms = Unbound
    /\ displayed = Unbound
    /\ history = <<>>
    /\ NoCall

\* ------------------------------------------------------ __main__ script
\* rafter_angle = float(input(...))
ReadAngle ==
    /\ pc = "input_angle"
    /\ \/ /\ pc' = "crashed"              \* the text is not a number
          /\ error' = "ValueError"
          /\ UNCHANGED rafter_angle_in
       \/ \E t \in Angles :
             /\ pc' = "input_count"
             /\ rafter_angle_in' = Bound(t)
             /\ UNCHANGED error
    /\ UNCHANGED <<caller, desired_number_of_prisms, args, i, columns,
                   structure, num_prisms, prism_spacing, result, displayed,
                   history>>

\* desired_number_of_prisms = int(input(...))
ReadCount ==
    /\ pc = "input_count"
    /\ \/ /\ pc' = "crashed"              \* the text is not an integer
          /\ error' = "ValueError"
          /\ UNCHANGED desired_number_of_prisms
       \/ \E t \in Counts :
             /\ pc' = "main_spacing"
             /\ desired_number_of_prisms' = Bound(t)
             /\ UNCHANGED error
    /\ UNCHANGED <<caller, rafter_angle_in, args, i, columns, structure,
                   num_prisms, prism_spacing, result, displayed, history>>

\* prism_spacing = rafter_length / (desired_number_of_prisms - 1), then the
\* call of create_custom_structure with the script's dimensions
MainCall ==
    /\ pc = "main_spacing"
    /\ IF ValueOf(desired_number_of_prisms) - 1 = 0
       THEN /\ pc' = "crashed"
            /\ error' = "ZeroDivisionError"
            /\ UNCHANGED args
       ELSE /\ pc' = "f_setup"
            /\ args' = Bound(ReferenceArgs(ValueOf(rafter_angle_in),
                               MainSpacing(ValueOf(desired_number_of_prisms))))
            /\ UNCHANGED error
    /\ UNCHANGED <<caller, rafter_angle_in, desired_number_of_prisms, i,
                   columns, structure, num_prisms, prism_spacing, result,
                   displayed, history>>

\* display.DisplayShape(custom_structure, update=True) ... start_display()
Display ==
    /\ pc = "display"
    /\ displayed' = result
    /\ pc' = "done"
    /\ UNCHANGED <<caller, rafter_angle_in, desired_number_of_prisms, args,
                   i, columns, structure, num_prisms, prism_spacing, result,
                   error, history>>

\* ------------------------------------------- create_custom_structure
\* angle_rad, column_spacing_x, the column template, columns = []
F_Setup ==
    /\ pc = "f_setup"
    /\ pc' = "f_columns"
    /\ i' = 0
    /\ columns' = <<>>
    /\ structure' = <<>>
    /\ prism_spacing' = ValueOf(args).prism_spacing
    /\ num_prisms' = 0
    /\ UNCHANGED <<caller, rafter_angle_in, desired_number_of_prisms, args,
                   result, error, displayed, history>>

\* one iteration of: for i in range(num_columns): place left and right column
F_PlaceColumns ==
    /\ pc = "f_columns"
    /\ i < num_columns
    /\ columns' = columns \o <<LeftColumn(ValueOf(args), i), RightColumn(ValueOf(args), i)>>
    /\ i' = i + 1
    /\ pc' = IF i + 1 < num_columns THEN "f_columns" ELSE "f_fuse_columns"
    /\ UNCHANGED <<caller, rafter_angle_in, desired_number_of_prisms, args,
                   structure, num_prisms, prism_spacing, result, error,
                   displayed, history>>

\* structure = columns[0]; fuse columns[1:]; box = MakeBox(1000, 1000, 1000)
F_FuseColumns ==
    /\ pc = "f_fuse_columns"
    /\ structure' = FuseColumns(columns)
    /\ i' = 0
    /\ pc' = "f_foundations"
    /\ UNCHANGED <<caller, rafter_angle_in, desired_number_of_prisms, args,
                   columns, num_prisms, prism_spacing, result, error,
                   displayed, history>>

\* one iteration of the foundation loop: fuse box_left, then box_right
F_Foundations ==
    /\ pc = "f_foundations"
    /\ i < num_columns
    /\ structure' = structure
                    \o <<FoundationLeft(ValueOf(args), i),
                         FoundationRight(ValueOf(args), i)>>
    /\ i' = IF i + 1 < num_columns THEN i + 1 ELSE 0
    /\ pc' = IF i + 1 < num_columns THEN "f_foundations" ELSE "f_rafters"
    /\ UNCHANGED <<caller, rafter_angle_in, desired_number_of_prisms, args,
                   columns, num_prisms, prism_spacing, result, error,
                   displayed, history>>

\* one iteration of the rafter loop: fuse rafter_left, then rafter_right
F_Rafters ==
    /\ pc = "f_rafters"
    /\ i < num_columns
    /\ structure' = structure \o <<RafterLeft(ValueOf(args), i),
                                      RafterRight(ValueOf(args), i)>>
    /\ i' = IF i + 1 < num_columns THEN i + 1 ELSE 0
    /\ pc' = IF i + 1 < num_columns THEN "f_rafters" ELSE "f_spacing"
    /\ UNCHANGED <<caller, rafter_angle_in, desired_number_of_prisms, args,
                   columns, num_prisms, prism_spacing, result, error,
                   displayed, history>>

\* num_prisms = desired_number_of_prisms (the module global);
\* prism_spacing = rafter_length * cos(angle_rad) / (num_prisms - 1)
F_Spacing ==
    /\ pc = "f_spacing"
    /\ IF desired_number_of_prisms = Unbound
       THEN /\ pc' = "crashed"
            /\ error' = "NameError"
            /\ UNCHANGED <<num_prisms, prism_spacing>>
       ELSE IF ValueOf(desired_number_of_prisms) - 1 = 0
       THEN /\ pc' = "crashed"
            /\ error' = "ZeroDivisionError"
            /\ num_prisms' = ValueOf(desired_number_of_prisms)
            /\ UNCHANGED prism_spacing
       ELSE /\ num_prisms' = ValueOf(desired_number_of_prisms)
            /\ prism_spacing' =
                  RecomputedSpacing(ValueOf(args),
                                    ValueOf(desired_number_of_prisms))
            /\ pc' = IF LeftCount(ValueOf(desired_number_of_prisms)) > 0
                     THEN "f_left" ELSE "f_return"
            /\ UNCHANGED error
    /\ i' = 0
    /\ UNCHANGED <<caller, rafter_angle_in, desired_number_of_prisms, args,
                   columns, structure, result, displayed, history>>

\* one iteration of: for i in range(num_prisms): place and fuse roof_left
F_LeftPurlin ==
    /\ pc = "f_left"
    /\ i < LeftCount(num_prisms)
    /\ structure' = Append(structure,
                           RoofLeft(ValueOf(args), num_prisms, prism_spacing, i))
    /\ i' = IF i + 1 < LeftCount(num_prisms) THEN i + 1 ELSE 0
    /\ pc' = IF i + 1 < LeftCount(num_prisms) THEN "f_left"
             ELSE IF RightCount(num_prisms) > 0 THEN "f_right"
             ELSE "f_return"
    /\ UNCHANGED <<caller, rafter_angle_in, desired_number_of_prisms, args,
                   columns, num_prisms, prism_spacing, result, error,
                   displayed, history>>

\* one iteration of: for i in range(num_prisms-1): place and fuse roof_right
F_RightPurlin ==
    /\ pc = "f_right"
    /\ i < RightCount(num_prisms)
    /\ structure' = Append(structure,
                           RoofRight(ValueOf(args), prism_spacing, i))
    /\ i' = IF i + 1 < RightCount(num_prisms) THEN i + 1 ELSE 0
    /\ pc' = IF i + 1 < RightCount(num_prisms) THEN "f_right" ELSE "f_return"
    /\ UNCHANGED <<caller, rafter_angle_in, desired_number_of_prisms, args,
                   columns, num_prisms, prism_spacing, result, error,
                   displayed, history>>

CallRecord(outcome, res) ==
    [args |-> ValueOf(args), global |-> desired_number_of_prisms,
     outcome |-> outcome, result |-> res]

\* return structure: to the script, which displays it, or to the importer
F_Return ==
    /\ pc = "f_return"
    /\ result' = Bound(structure)
    /\ IF caller = "main"
       THEN /\ pc' = "display"
            /\ UNCHANGED history
       ELSE /\ pc' = "idle"
            /\ history' = Append(history, CallRecord("returned", Bound(structure)))
    /\ UNCHANGED <<caller, rafter_angle_in, desired_number_of_prisms, args,
                   i, columns, structure, num_prisms, prism_spacing, error,
                   displayed>>

\* ------------------------------------------------ the module as a library
\* The importer binds or rebinds the module global between calls.
SetGlobal ==
    /\ pc = "idle"
    /\ Len(history) < MaxCalls
    /\ \E n \in Counts :
          /\ Bound(n) # desired_number_of_prisms
          /\ desired_number_of_prisms' = Bound(n)
    /\ UNCHANGED <<pc, caller, rafter_angle_in, args, i, columns, structure,
                   num_prisms, prism_spacing, result, error, displayed,
                   history>>

\* The importer calls create_custom_structure(...).
LibCall ==
    /\ pc = "idle"
    /\ Len(history) < MaxCalls
    /\ \E angle \in Angles, sp \in SpacingArgs :
          args' = Bound(ReferenceArgs(angle, sp))
    /\ pc' = "f_setup"
    /\ result' = Unbound
    /\ error' = NoError
    /\ UNCHANGED <<caller, rafter_angle_in, desired_number_of_prisms, i,
                   columns, structure, num_prisms, prism_spacing, displayed,
                   history>>

\* The importer catches the exception a call raised and goes on.
LibCatch ==
    /\ pc = "crashed"
    /\ caller = "lib"
    /\ history' = Append(history, CallRecord(error, Unbound))
    /\ pc' = "idle"
    /\ UNCHANGED <<caller, rafter_angle_in, desired_number_of_prisms, args,
                   i, columns, structure, num_prisms, prism_spacing, result,
                   error, displayed>>

Generate ==
    \/ F_Setup
    \/ F_PlaceColumns
    \/ F_FuseColumns
    \/ F_Foundations
    \/ F_Rafters
    \/ F_Spacing
    \/ F_LeftPurlin
    \/ F_RightPurlin
    \/ F_Return

Next ==
    \/ ReadAngle
    \/ ReadCount
    \/ MainCall
    \/ Generate
    \/ Display

NextLib ==
    \/ SetGlobal
    \/ LibCall
    \/ Generate
    \/ LibCatch

Spec == Init /\ [][Next]_vars

SpecLib == InitLib /\ [][NextLib]_vars

\* ------------------------------------------------------------ properties
\* The indices of the solids of kind k on side d in the accumulator s.
Placed(s, k, d) == {j \in 1 .. Len(s) : s[j].kind = k /\ s[j].side = d}

Identity(q) == <<q.kind, q.side, q.idx>>

Sides == {"left", "right"}
Bays == 0 .. (num_columns - 1)

\* The solids a run with purlin count n produces, by identity.
ExpectedSolids(n) ==
    ({"column", "foundation", "rafter"} \X Sides \X Bays)
    \cup ({"purlin"} \X {"left"} \X (0 .. (n - 1)))
    \cup ({"purlin"} \X {"right"} \X (0 .. (n - 2)))

Returned == result # Unbound

CountRead == desired_number_of_prisms # Unbound

\* C1: a completed run with purlin count N >= 2 has fused 10 columns, 10
\* foundation blocks, 10 rafters, N left purlins and N-1 right purlins, each
\* produced solid exactly once, and returns the accumulator after the last
\* fuse.
C1_FusedSolids ==
    (Returned /\ CountRead /\ ValueOf(desired_number_of_prisms) >= 2) =>
        LET s == ValueOf(result)
            n == ValueOf(desired_number_of_prisms)
        IN /\ s = structure
           /\ Cardinality(Placed(s, "column", "left")
                          \cup Placed(s, "column", "right")) = 10
           /\ Cardinality(Placed(s, "foundation", "left")
                          \cup Placed(s, "foundation", "right")) = 10
           /\ Cardinality(Placed(s, "rafter", "left")
                          \cup Placed(s, "rafter", "right")) = 10
           /\ Cardinality(Placed(s, "purlin", "left")) = n
           /\ Cardinality(Placed(s, "purlin", "right")) = n - 1
           /\ Len(s) = 30 + 2 * n - 1
           /\ {Identity(s[j]) : j \in 1 .. Len(s)} = ExpectedSolids(n)
           /\ s[Len(s)].kind = "purlin" /\ s[Len(s)].side = "right"

C1_Witness ==
    /\ pc = "done"
    /\ Returned
    /\ ValueOf(desired_number_of_prisms) = 3
    /\ Len(ValueOf(result)) = 35

\* C2: two calls with identical argument values yield the same outcome and
\* the same solid, whatever happens between them.
C2_SameArgumentsSameSolid ==
    \A h1, h2 \in 1 .. Len(history) :
        history[h1].args = history[h2].args =>
            /\ history[h1].outcome = history[h2].outcome
            /\ history[h1].result = history[h2].result

\* C3: a purlin count below 2 ends the run with a failure: no solid is
\* returned and nothing is handed to the viewer.
C3_CountBelowTwoFails ==
    (CountRead /\ ValueOf(desired_number_of_prisms) < 2) =>
        /\ result = Unbound
        /\ displayed = Unbound

\* C4: a rafter angle of 90 degrees never completes and returns a structure.
C4_RightAngleRejected ==
    rafter_angle_in = Bound(90) =>
        /\ result = Unbound
        /\ displayed = Unbound

\* C5: with purlin count 2 no division by zero occurs and every placed
\* purlin sits at x = 0, x = column_spacing_x or x = column_spacing_x / 2.
C5_PurlinsAtEndpointsOnly ==
    (CountRead /\ ValueOf(desired_number_of_prisms) = 2) =>
        /\ error # "ZeroDivisionError"
        /\ args # Unbound =>
             \A j \in 1 .. Len(structure) :
                structure[j].kind = "purlin" =>
                   structure[j].x \in
                      {0, ColumnSpacingX(ValueOf(args)),
                       ColumnSpacingX(ValueOf(args)) \div 2}

\* Extent in depth of a foundation block: MakeBox(1000, 1000, 1000) has a
\* corner at the origin and is translated by the block's placement.
BlockLow(q) == q.y
BlockHigh(q) == q.y + Mm(BoxSize)

Blocks(s) == {s[j] : j \in Placed(s, "foundation", "left")
                           \cup Placed(s, "foundation", "right")}

Frames(s) == {s[j] : j \in Placed(s, "column", "left")
                           \cup Placed(s, "column", "right")
                           \cup Placed(s, "rafter", "left")
                           \cup Placed(s, "rafter", "right")}

\* C6 as stated: for the reference parameters no placed solid reaches
\* outside the span from the first bay to the last bay, so the depth extent
\* is 4 * rafter_length.
C6_DepthExtentIsFourBays ==
    Returned =>
        \A q \in Blocks(ValueOf(result)) :
            /\ BlockLow(q) >= 0
            /\ BlockHigh(q) <= 4 * Mm(RafterLengthMm)

\* C6 amended: the columns and rafters are placed at depths from 0 to
\* 4 * rafter_length, and the foundation blocks occupy the depths from
\* -1.5 * column_thickness to 4 * rafter_length - 1.5 * column_thickness
\* + 1000, an extent of 4 * rafter_length + 1000.
C6_DepthExtentOfBlocks ==
    Returned =>
        LET s == ValueOf(result)
            lo == CHOOSE v \in {BlockLow(q) : q \in Blocks(s)} :
                     \A q \in Blocks(s) : v <= BlockLow(q)
            hi == CHOOSE v \in {BlockHigh(q) : q \in Blocks(s)} :
                     \A q \in Blocks(s) : v >= BlockHigh(q)
        IN /\ {q.y : q \in Frames(s)} =
                 {k * Mm(RafterLengthMm) : k \in Bays}
           /\ lo = -(Mm(ColumnThicknessMm) * 3) \div 2
           /\ hi = 4 * Mm(RafterLengthMm) - (Mm(ColumnThicknessMm) * 3) \div 2
                   + Mm(BoxSize)
           /\ hi - lo = 4 * Mm(RafterLengthMm) + Mm(BoxSize)

C6_Witness ==
    /\ pc = "done"
    /\ Returned
    /\ \E q \in Blocks(ValueOf(result)) : q.idx = 4 /\ q.y > 0
    /\ \E q \in Blocks(ValueOf(result)) : q.idx = 0 /\ q.y < 0

\* C7: in every bay k the left column is placed at span offset 0 and depth
\* k * rafter_length and the right column at the same depth and span offset
\* 2 * rafter_length * cos(angle) + column_thickness.
C7_ColumnPlacement ==
    args # Unbound =>
        LET a == ValueOf(args)
            sep == (2 * a.rafter_length * CosC(a.rafter_angle)) \div 100
                   + a.column_thickness
        IN /\ \A j \in 1 .. Len(columns) :
                /\ columns[j].y = columns[j].idx * a.rafter_length
                /\ columns[j].z = 0
                /\ columns[j].side = "left" => columns[j].x = 0
                /\ columns[j].side = "right" => columns[j].x = sep
           /\ \A j \in 1 .. Len(structure) :
                structure[j].kind = "column" =>
                   \E c \in 1 .. Len(columns) : columns[c] = structure[j]
           /\ Returned =>
                \A k \in Bays :
                   \E l, r \in 1 .. Len(structure) :
                      /\ structure[l].kind = "column"
                      /\ structure[l].side = "left"
                      /\ structure[l].idx = k
                      /\ structure[r].kind = "column"
                      /\ structure[r].side = "right"
                      /\ structure[r].idx = k
                      /\ structure[r].y = structure[l].y
                      /\ structure[r].x - structure[l].x = sep

C7_Witness ==
    /\ Returned
    /\ ValueOf(args).rafter_angle = 20
    /\ Len(columns) = 10
    /\ columns[10].x = Mm(16920) + Mm(ColumnThicknessMm)
    /\ columns[10].y = 4 * Mm(RafterLengthMm)

\* C8: any two consecutive purlins on the same rafter are separated by the
\* same horizontal distance rafter_length * cos(angle) / (N - 1).
C8_UniformPurlinSpacing ==
    (Returned /\ CountRead /\ ValueOf(desired_number_of_prisms) >= 2) =>
        LET s == ValueOf(result)
            a == ValueOf(args)
            n == ValueOf(desired_number_of_prisms)
            d == ((a.rafter_length * CosC(a.rafter_angle)) \div 100)
                 \div (n - 1)
        IN \A j, k \in 1 .. Len(s) :
              (/\ s[j].kind = "purlin"
               /\ s[k].kind = "purlin"
               /\ s[j].side = s[k].side
               /\ s[k].idx = s[j].idx + 1) => Abs(s[k].x - s[j].x) = d

\* C9: in every bay and on both sides the displacement from the column's
\* placement to its foundation block's placement is the same vector.
C9_BlocksCentredAlike ==
    Returned =>
        LET s == ValueOf(result)
        IN \A c1, b1, c2, b2 \in 1 .. Len(s) :
              (/\ s[c1].kind = "column" /\ s[b1].kind = "foundation"
               /\ s[c1].side = s[b1].side /\ s[c1].idx = s[b1].idx
               /\ s[c2].kind = "column" /\ s[b2].kind = "foundation"
               /\ s[c2].side = s[b2].side /\ s[c2].idx = s[b2].idx)
              => /\ s[b1].x - s[c1].x = s[b2].x - s[c2].x
                 /\ s[b1].y - s[c1].y = s[b2].y - s[c2].y
                 /\ s[b1].z - s[c1].z = s[b2].z - s[c2].z

\* Two argument records that differ at most in prism_spacing.
SameButSpacing(a, b) ==
    [a EXCEPT !.prism_spacing = 0] = [b EXCEPT !.prism_spacing = 0]

====
